---- MODULE Spec2Model ----
(***************************************************************************)
(* Model of crawler_bot.py: the link extraction, normalization and         *)
(* deduplicated persistence pipeline of the silent link crawler.           *)
(*                                                                         *)
(* Strings are sequences of tokens.  A token is either one of the URL      *)
(* delimiter characters ":", "/", "?", "#" or a maximal run of             *)
(* non-delimiter characters, so two strings are equal exactly when their   *)
(* token sequences are equal.  Entity offsets and lengths are measured in  *)
(* tokens.                                                                 *)
(***************************************************************************)
EXTENDS Integers, Sequences, FiniteSets, TLC

\* ------------------------------------------------------------------------
\* Bounds of the model
\* ------------------------------------------------------------------------
MaxEvents == 3      \* updates delivered by the transport in one behaviour
MaxClock == 1       \* ticks of the UTC clock in one behaviour
MaxDepth == 2       \* parents in a reply chain of the extraction inputs
MaxConcurrentEvents == 2   \* updates dispatched to the two concurrent invocations
MaxSlashes == 2     \* trailing slashes of the raw links of the normalization inputs

\* ------------------------------------------------------------------------
\* Python values
\* ------------------------------------------------------------------------
\* None where an object is expected (message, chat, sender, markup)
None == [none |-> TRUE]
\* None where an integer is expected; stored as SQL NULL
NULL == 0
\* None where a string is expected
NoneStr == "<None>"

\* Python truthiness of an optional string
Truthy(s) == s # NoneStr /\ s # ""

\* s[from:] on a sequence, from counted from 0
Drop(s, from) == IF from >= Len(s) THEN <<>> ELSE SubSeq(s, from + 1, Len(s))

\* s[:to] on a sequence
Take(s, to) == IF to <= 0 THEN <<>> ELSE SubSeq(s, 1, IF to > Len(s) THEN Len(s) ELSE to)

\* s[from:to] with Python's clamping of both ends
Slice(s, from, to) == Drop(Take(s, to), from)

\* s.find(t) + 1: index of the first token t of s, 0 when there is none
Find(s, t) == IF \E i \in 1..Len(s) : s[i] = t
              THEN CHOOSE i \in 1..Len(s) : s[i] = t /\ \A j \in 1..(i - 1) : s[j] # t
              ELSE 0

\* ------------------------------------------------------------------------
\* urllib.parse.urlparse, on token sequences
\* ------------------------------------------------------------------------
\* tokens made of scheme characters only and starting with a letter
SchemeTokens == {"https", "HTTPS", "http", "t.me", "not.me", "example.com",
                 "chat.whatsapp.com", "chan", "page", "joinchat", "addstickers", "s",
                 "proxy", "proxyfoo", "abc", "utm"}

\* str.lower() of a scheme token
Lower(t) == IF t = "HTTPS" THEN "https" ELSE t

\* tokens on which str.isdigit() is true
DigitTokens == {"123", "456"}

\* tokens that contain the substring "t.me"
TMeTokens == {"t.me", "not.me"}

\* tokens that contain the substring "chat.whatsapp.com"
WhatsappTokens == {"chat.whatsapp.com"}

\* tokens that start with "proxy"
ProxyTokens == {"proxy", "proxyfoo"}

\* index of the first token of s that ends the network location
NetlocEnd(s) ==
  IF \E i \in 1..Len(s) : s[i] \in {"/", "?", "#"}
  THEN CHOOSE i \in 1..Len(s) : /\ s[i] \in {"/", "?", "#"}
                                /\ \A j \in 1..(i - 1) : s[j] \notin {"/", "?", "#"}
  ELSE Len(s) + 1

\* the scheme of a url and what follows its colon
SplitScheme(url) ==
  LET colon == Find(url, ":")
  IN IF colon > 1 /\ \A j \in 1..(colon - 1) : url[j] \in SchemeTokens
     THEN [scheme |-> [j \in 1..(colon - 1) |-> Lower(url[j])], rest |-> Drop(url, colon)]
     ELSE [scheme |-> <<>>, rest |-> url]

\* the network location after a leading "//" and what follows it
SplitNetloc(url) ==
  IF Len(url) >= 2 /\ url[1] = "/" /\ url[2] = "/"
  THEN LET after == Drop(url, 2)
       IN [netloc |-> Take(after, NetlocEnd(after) - 1),
           rest |-> Drop(after, NetlocEnd(after) - 1)]
  ELSE [netloc |-> <<>>, rest |-> url]

\* url.split(sep, 1) when sep occurs in url
SplitAt(url, sep) ==
  LET k == Find(url, sep)
  IN IF k > 0
     THEN [head |-> Take(url, k - 1), tail |-> Drop(url, k)]
     ELSE [head |-> url, tail |-> <<>>]

\* the path with the fragment cut off and the query left in it
PathOfKeepsQuery(url) == SplitAt(url, "#").head

\* the path of what follows the network location: fragment, then query, cut off
PathOf(url) == SplitAt(SplitAt(url, "#").head, "?").head

urlparse(link) ==
  LET s == SplitScheme(link)
      n == SplitNetloc(s.rest)
  IN [scheme |-> s.scheme, netloc |-> n.netloc, path |-> PathOf(n.rest),
      query |-> SplitAt(SplitAt(n.rest, "#").head, "?").tail,
      fragment |-> SplitAt(n.rest, "#").tail]

\* str.rstrip("/")
RECURSIVE rstrip(_)
rstrip(s) == IF Len(s) > 0 /\ s[Len(s)] = "/" THEN rstrip(Take(s, Len(s) - 1)) ELSE s

\* str.split("/"): the sequence of the parts between the "/" tokens
RECURSIVE split(_)
split(s) ==
  LET k == Find(s, "/")
  IN IF k = 0 THEN <<s>> ELSE <<Take(s, k - 1)>> \o split(Drop(s, k))

\* f"{scheme}://{netloc}{path}"
Format(scheme, netloc, path) == scheme \o <<":", "/", "/">> \o netloc \o path

normalize_link(link) ==
  LET parsed == urlparse(link)
      path == rstrip(parsed.path)
  IN Format(parsed.scheme, parsed.netloc, path)

\* path.startswith(prefix) for a prefix list that holds "/joinchat/" only
StartsWithJoinchatOnly(path) ==
  /\ Len(path) >= 3
  /\ path[1] = "/" /\ path[2] = "joinchat" /\ path[3] = "/"

\* path.startswith(prefix) for one of the four special prefixes
StartsWithSpecial(path) ==
  \/ /\ Len(path) >= 3
     /\ path[1] = "/" /\ path[2] \in {"joinchat", "addstickers", "s"} /\ path[3] = "/"
  \/ /\ Len(path) >= 2
     /\ path[1] = "/" /\ path[2] \in ProxyTokens

normalize_telegram_channel(link) ==
  LET parsed == urlparse(link)
      path == rstrip(parsed.path)
      parts == split(path)
  IN IF StartsWithSpecial(path)
     THEN Format(parsed.scheme, parsed.netloc, path)
     ELSE IF /\ parsed.netloc = <<"t.me">>
             /\ \E i \in 2..Len(path) : path[i] = "/"
             /\ Len(parts) >= 3
             /\ Len(parts[3]) = 1
             /\ parts[3][1] \in DigitTokens
          THEN Format(parsed.scheme, parsed.netloc, <<"/">> \o parts[2])
          ELSE Format(parsed.scheme, parsed.netloc, path)

\* "t.me" in link
ContainsTMe(link) == \E i \in 1..Len(link) : link[i] \in TMeTokens

\* detect_platform with the two checks in the other order
detect_platform_whatsapp_first(link) ==
  IF \E i \in 1..Len(link) : link[i] \in WhatsappTokens THEN "whatsapp"
  ELSE IF ContainsTMe(link) THEN "telegram"
  ELSE "other"

detect_platform(link) ==
  IF ContainsTMe(link) THEN "telegram"
  ELSE IF \E i \in 1..Len(link) : link[i] \in WhatsappTokens THEN "whatsapp"
  ELSE "other"

\* the expression of line 104 of save_links_to_db
Normalized(link) ==
  IF ContainsTMe(link) THEN normalize_telegram_channel(link) ELSE normalize_link(link)

\* ------------------------------------------------------------------------
\* Link extraction
\* ------------------------------------------------------------------------
\* the loop of extract_links_from_entities, from the k-th entity on
RECURSIVE EntityLoop(_, _, _, _)
EntityLoop(text, entities, k, result) ==
  IF k > Len(entities) THEN result
  ELSE LET entity == entities[k]
       IN IF entity.type = "url"
          THEN EntityLoop(text, entities, k + 1,
                 Append(result, Slice(text, entity.offset, entity.offset + entity.length)))
          ELSE IF entity.type = "text_link"
               THEN EntityLoop(text, entities, k + 1, Append(result, entity.url))
               ELSE EntityLoop(text, entities, k + 1, result)

extract_links_from_entities(text, entities) ==
  IF entities = <<>> THEN <<>> ELSE EntityLoop(text, entities, 1, <<>>)

\* the inner loop of extract_links_from_buttons over one row
RECURSIVE ButtonLoop(_, _, _)
ButtonLoop(row, k, result) ==
  IF k > Len(row) THEN result
  ELSE IF row[k].url # <<>>
       THEN ButtonLoop(row, k + 1, Append(result, row[k].url))
       ELSE ButtonLoop(row, k + 1, result)

\* the outer loop of extract_links_from_buttons over the rows
RECURSIVE RowLoop(_, _, _)
RowLoop(rows, k, result) ==
  IF k > Len(rows) THEN result
  ELSE RowLoop(rows, k + 1, ButtonLoop(rows[k], 1, result))

extract_links_from_buttons(markup) == RowLoop(markup.inline_keyboard, 1, <<>>)

\* extract_all_links_from_message with the links of the replied-to message put
\* first
RECURSIVE extract_parent_first(_)
extract_parent_first(message) ==
  LET l0 == IF message.reply_to_message # None
            THEN extract_parent_first(message.reply_to_message)
            ELSE <<>>
      l1 == IF message.text # <<>>
            THEN l0 \o extract_links_from_entities(message.text, message.entities)
            ELSE l0
      l2 == IF message.caption # <<>>
            THEN l1 \o extract_links_from_entities(message.caption, message.caption_entities)
            ELSE l1
  IN IF message.reply_markup # None
     THEN l2 \o extract_links_from_buttons(message.reply_markup)
     ELSE l2

\* extract_all_links_from_message with the recursion capped at the replied-to
\* message: the message a parent replies to is not visited
extract_capped_at_parent(message) ==
  LET own(m) ==
        (IF m.text # <<>> THEN extract_links_from_entities(m.text, m.entities) ELSE <<>>)
        \o (IF m.caption # <<>>
            THEN extract_links_from_entities(m.caption, m.caption_entities) ELSE <<>>)
        \o (IF m.reply_markup # None
            THEN extract_links_from_buttons(m.reply_markup) ELSE <<>>)
  IN IF message.reply_to_message # None
     THEN own(message) \o own(message.reply_to_message)
     ELSE own(message)

RECURSIVE extract_all_links_from_message(_)
extract_all_links_from_message(message) ==
  LET l1 == IF message.text # <<>>
            THEN extract_links_from_entities(message.text, message.entities)
            ELSE <<>>
      l2 == IF message.caption # <<>>
            THEN l1 \o extract_links_from_entities(message.caption, message.caption_entities)
            ELSE l1
      l3 == IF message.reply_markup # None
            THEN l2 \o extract_links_from_buttons(message.reply_markup)
            ELSE l2
  IN IF message.reply_to_message # None
     THEN l3 \o extract_all_links_from_message(message.reply_to_message)
     ELSE l3

\* ------------------------------------------------------------------------
\* Inputs: raw links, messages, chats and senders delivered by the transport
\* ------------------------------------------------------------------------
LinkChan123 == <<"https", ":", "/", "/", "t.me", "/", "chan", "/", "123">>
LinkChan456 == <<"https", ":", "/", "/", "t.me", "/", "chan", "/", "456">>
LinkPage == <<"https", ":", "/", "/", "example.com", "/", "page", "?", "utm">>
LinkJoin == <<"https", ":", "/", "/", "t.me", "/", "joinchat", "/", "abc">>
LinkWhatsapp == <<"https", ":", "/", "/", "chat.whatsapp.com", "/", "abc">>
LinkProxy == <<"https", ":", "/", "/", "t.me", "/", "proxy", "?", "abc">>

UrlEntity(offset, length) ==
  [type |-> "url", offset |-> offset, length |-> length, url |-> <<>>]
TextLinkEntity(offset, length, url) ==
  [type |-> "text_link", offset |-> offset, length |-> length, url |-> url]
BoldEntity(offset, length) ==
  [type |-> "bold", offset |-> offset, length |-> length, url |-> <<>>]

Button(url) == [url |-> url]
Markup(rows) == [inline_keyboard |-> rows]

Message(text, entities, caption, caption_entities, reply_markup, reply_to_message) ==
  [text |-> text, entities |-> entities,
   caption |-> caption, caption_entities |-> caption_entities,
   reply_markup |-> reply_markup, reply_to_message |-> reply_to_message]

\* a text message without any entity, button or parent
MsgPlain == Message(<<"hello">>, <<>>, <<>>, <<>>, None, None)
\* "see https://t.me/chan/123" with a bare-URL entity over the link
MsgChan == Message(<<"see", " ">> \o LinkChan123, <<BoldEntity(0, 1), UrlEntity(2, 9)>>,
                   <<>>, <<>>, None, None)
\* a photo whose caption hyperlinks the page and whose button opens the channel
MsgPhoto == Message(<<>>, <<>>, <<"page">>, <<TextLinkEntity(0, 1, LinkPage)>>,
                    Markup(<<<<Button(<<>>), Button(LinkChan456)>>>>), None)
\* a reply to MsgPhoto that carries the second channel link itself
MsgReply == Message(LinkChan456, <<UrlEntity(0, 9)>>, <<>>, <<>>, None, MsgPhoto)

Chat(id, title, username) == [id |-> id, title |-> title, username |-> username]
ChatA == Chat(1, "A", NoneStr)
ChatB == Chat(2, NoneStr, "b")
\* a chat descriptor without an id: group_id is stored as NULL
ChatNoId == Chat(NULL, NoneStr, NoneStr)

User(id, full_name) == [id |-> id, full_name |-> full_name]
User7 == User(7, "u7")
User8 == User(8, "u8")

Update(message, chat, sender) == [message |-> message, chat |-> chat, sender |-> sender]

\* the updates the transport may deliver, each any number of times
Inbox == {
  Update(None, ChatA, User7),        \* an update that is not a message
  Update(MsgPlain, ChatA, User7),    \* a message without links
  Update(MsgChan, ChatA, User7),
  Update(MsgChan, ChatB, User7),
  Update(MsgReply, ChatA, User8),    \* one link twice in a batch, another sender
  Update(MsgPhoto, ChatB, User8),
  Update(MsgChan, ChatNoId, User7),  \* a chat without an id
  Update(MsgPhoto, ChatA, None),     \* a channel post: no sender
  Update(MsgChan, None, User7)       \* no chat descriptor
}

Procs == {1, 2}

\* ------------------------------------------------------------------------
\* State
\* ------------------------------------------------------------------------
VARIABLES
  db,           \* the committed rows of table links
  pending,      \* the rows inserted by the open write transaction
  lockHolder,   \* the connection holding the write lock of the database file
  openConns,    \* number of connections opened and not closed
  clock,        \* the UTC clock read by datetime.utcnow()
  faults,       \* number of storage faults raised by the storage layer so far
  out,          \* the lines printed by handle_all_messages
  handled,      \* per invocation: number of updates dispatched to it so far
  pc,           \* per invocation: "idle" or "insert" (inside save_links_to_db)
  update,       \* per invocation: the update being (or last) handled
  all_links,    \* per invocation: the extracted links of the running batch
  idx,          \* per invocation: position of the for loop in original_links
  saved_count,  \* per invocation: saved_count; after the return, the value returned
  status,       \* per invocation: how the last handled update ended
  exc,          \* per invocation: the exception that left the handler, if any
  fresh,        \* per invocation: the store held no pair of the batch when it ran
  again,        \* per invocation: the batch redelivers the previous update, which ended so
  concurrent,   \* per invocation: another invocation was inside its batch meanwhile
  xmsg,         \* extraction check: the message under extraction
  xlinks,       \* extraction check: the links extracted from xmsg
  xpc,          \* extraction check: "input" or "done"
  shape,        \* normalization check: the components the raw link is written from
  rawLink,      \* normalization check: the raw link of one pass of the for loop
  canonical,    \* normalization check: normalized, as computed by line 104
  tag,          \* normalization check: platform, as computed by line 105
  npc           \* normalization check: "input" or "done"

storeVars == <<db, pending, lockHolder, openConns>>
procVars == <<handled, pc, update, all_links, idx, saved_count, status, exc, fresh, again, concurrent>>
extractVars == <<xmsg, xlinks, xpc>>
normVars == <<shape, rawLink, canonical, tag, npc>>
vars == <<db, pending, lockHolder, openConns, clock, faults, out,
          handled, pc, update, all_links, idx, saved_count, status, exc, fresh, again,
          concurrent, xmsg, xlinks, xpc, shape, rawLink, canonical, tag, npc>>

\* lockHolder when no connection holds the write lock
NoHolder == 0
\* lockHolder when the lock is held by a connection whose batch was left by an exception
Leaked == 3

NoUpdate == [message |-> None, chat |-> None, sender |-> None]

\* ------------------------------------------------------------------------
\* Table links
\* ------------------------------------------------------------------------
\* the rows a write transaction sees: the committed ones and its own
Visible == db \cup pending

\* a uniqueness constraint over normalized_link alone
ConflictsOnLinkOnly(row, rows) ==
  \E r \in rows : r.normalized_link = row.normalized_link

\* UNIQUE(normalized_link, group_id): SQL NULLs are distinct from each other
Conflicts(row, rows) ==
  \E r \in rows : /\ r.normalized_link = row.normalized_link
                  /\ r.group_id # NULL
                  /\ row.group_id # NULL
                  /\ r.group_id = row.group_id

\* id INTEGER PRIMARY KEY AUTOINCREMENT
NextId(rows) ==
  IF rows = {} THEN 1
  ELSE 1 + (CHOOSE m \in {r.id : r \in rows} : \A r \in rows : r.id <= m)

\* the parameter tuple of the INSERT statement
NewRow(link, chat, sender, now, rows) ==
  [id |-> NextId(rows),
   normalized_link |-> Normalized(link),
   original_link |-> link,
   platform |-> detect_platform(link),
   group_id |-> chat.id,
   group_name |-> IF Truthy(chat.title) THEN chat.title ELSE chat.username,
   sender_id |-> sender.id,
   sender_name |-> sender.full_name,
   date_added |-> now]

\* connections that are open although no running batch owns them
LeakedConns == openConns - Cardinality({p \in Procs : pc[p] = "insert"})

\* ------------------------------------------------------------------------
\* Initial state: init_db() has created the empty table
\* ------------------------------------------------------------------------
NoAgain == [prev |-> "no", count |-> 0, fresh |-> FALSE]

InitStore ==
  /\ db = {}
  /\ pending = {}
  /\ lockHolder = NoHolder
  /\ openConns = 0
  /\ clock = 0
  /\ faults = 0
  /\ out = <<>>
  /\ handled = [p \in Procs |-> 0]
  /\ pc = [p \in Procs |-> "idle"]
  /\ update = [p \in Procs |-> NoUpdate]
  /\ all_links = [p \in Procs |-> <<>>]
  /\ idx = [p \in Procs |-> 0]
  /\ saved_count = [p \in Procs |-> 0]
  /\ status = [p \in Procs |-> "none"]
  /\ exc = [p \in Procs |-> "none"]
  /\ fresh = [p \in Procs |-> FALSE]
  /\ again = [p \in Procs |-> NoAgain]
  /\ concurrent = [p \in Procs |-> FALSE]

\* no message is under extraction
NoExtraction ==
  /\ xmsg = None
  /\ xlinks = <<>>
  /\ xpc = "done"

\* the components of no link
NoShape == [scheme |-> "", host |-> "", path |-> <<>>, slashes |-> 0,
            query |-> "", fragment |-> ""]

\* no link is under normalization
NoNormalization ==
  /\ shape = NoShape
  /\ rawLink = <<>>
  /\ canonical = <<>>
  /\ tag = "none"
  /\ npc = "done"

Init ==
  /\ InitStore
  /\ NoExtraction
  /\ NoNormalization

\* ------------------------------------------------------------------------
\* handle_all_messages and save_links_to_db
\* ------------------------------------------------------------------------
\* the (canonical link, group id) pairs of a batch
BatchPairs(links, chat) == {<<Normalized(links[k]), chat.id>> : k \in 1..Len(links)}

\* the rows stored under a (canonical link, group id) pair
RowsOf(rows, pair) ==
  {r \in rows : r.normalized_link = pair[1] /\ r.group_id = pair[2]}

\* number of updates dispatched so far
Events == handled[1] + handled[2]

\* the transport dispatches update u to invocation p
Dispatch(p, u) ==
  /\ pc[p] = "idle"
  /\ Events < MaxEvents
  /\ handled' = [handled EXCEPT ![p] = @ + 1]
  /\ update' = [update EXCEPT ![p] = u]

\* lines 132-133: an update without a message is dropped
HandleNoMessage(p, u) ==
  /\ Dispatch(p, u)
  /\ u.message = None
  /\ status' = [status EXCEPT ![p] = "ignored"]
  /\ exc' = [exc EXCEPT ![p] = "none"]
  /\ all_links' = [all_links EXCEPT ![p] = <<>>]
  /\ idx' = [idx EXCEPT ![p] = 0]
  /\ saved_count' = [saved_count EXCEPT ![p] = 0]
  /\ fresh' = [fresh EXCEPT ![p] = FALSE]
  /\ again' = [again EXCEPT ![p] = NoAgain]
  /\ concurrent' = [concurrent EXCEPT ![p] = FALSE]
  /\ UNCHANGED <<db, pending, lockHolder, openConns, clock, faults, out, pc>>
  /\ UNCHANGED extractVars
  /\ UNCHANGED normVars

\* handle_all_messages without the early return of lines 136-137: the empty
\* list is handed to save_links_to_db, which opens its connection
HandleNoLinksOpensStore(p, u) ==
  /\ Dispatch(p, u)
  /\ u.message # None
  /\ extract_all_links_from_message(u.message) = <<>>
  /\ all_links' = [all_links EXCEPT ![p] = <<>>]
  /\ openConns' = openConns + 1
  /\ pc' = [pc EXCEPT ![p] = "insert"]
  /\ idx' = [idx EXCEPT ![p] = 1]
  /\ saved_count' = [saved_count EXCEPT ![p] = 0]
  /\ status' = [status EXCEPT ![p] = "running"]
  /\ exc' = [exc EXCEPT ![p] = "none"]
  /\ fresh' = [fresh EXCEPT ![p] = FALSE]
  /\ again' = [again EXCEPT ![p] = NoAgain]
  /\ concurrent' = [concurrent EXCEPT ![p] = FALSE]
  /\ UNCHANGED <<db, pending, lockHolder, clock, faults, out>>
  /\ UNCHANGED extractVars
  /\ UNCHANGED normVars

\* lines 135-137: a message without links returns before the store is called
HandleNoLinks(p, u) ==
  /\ Dispatch(p, u)
  /\ u.message # None
  /\ extract_all_links_from_message(u.message) = <<>>
  /\ status' = [status EXCEPT ![p] = "empty"]
  /\ exc' = [exc EXCEPT ![p] = "none"]
  /\ all_links' = [all_links EXCEPT ![p] = <<>>]
  /\ idx' = [idx EXCEPT ![p] = 0]
  /\ saved_count' = [saved_count EXCEPT ![p] = 0]
  /\ fresh' = [fresh EXCEPT ![p] = FALSE]
  /\ again' = [again EXCEPT ![p] = NoAgain]
  /\ concurrent' = [concurrent EXCEPT ![p] = FALSE]
  /\ UNCHANGED <<db, pending, lockHolder, openConns, clock, faults, out, pc>>
  /\ UNCHANGED extractVars
  /\ UNCHANGED normVars

\* lines 135-139 and 99-101: the links are extracted and save_links_to_db
\* opens its connection
HandleOpen(p, u) ==
  /\ Dispatch(p, u)
  /\ u.message # None
  /\ extract_all_links_from_message(u.message) # <<>>
  /\ all_links' = [all_links EXCEPT ![p] = extract_all_links_from_message(u.message)]
  /\ openConns' = openConns + 1
  /\ pc' = [pc EXCEPT ![p] = "insert"]
  /\ idx' = [idx EXCEPT ![p] = 1]
  /\ saved_count' = [saved_count EXCEPT ![p] = 0]
  /\ status' = [status EXCEPT ![p] = "running"]
  /\ exc' = [exc EXCEPT ![p] = "none"]
  /\ fresh' = [fresh EXCEPT ![p] = FALSE]
  /\ again' = [again EXCEPT ![p] =
                 IF u = update[p] /\ status[p] \in {"returned", "raised"}
                 THEN [prev |-> status[p], count |-> saved_count[p], fresh |-> fresh[p]]
                 ELSE NoAgain]
  /\ concurrent' = [q \in Procs |->
                      IF q = p THEN \E o \in Procs \ {p} : pc[o] = "insert"
                      ELSE concurrent[q] \/ pc[q] = "insert"]
  /\ UNCHANGED <<db, pending, lockHolder, clock, faults, out>>
  /\ UNCHANGED extractVars
  /\ UNCHANGED normVars

\* one pass of the for loop with the statement INSERT OR REPLACE: a conflicting
\* row is deleted and the new row is inserted in its place
InsertOrReplaceLink(p) ==
  /\ pc[p] = "insert"
  /\ idx[p] <= Len(all_links[p])
  /\ update[p].chat # None
  /\ update[p].sender # None
  /\ lockHolder \in {NoHolder, p}
  /\ LET row == NewRow(all_links[p][idx[p]], update[p].chat, update[p].sender,
                       clock, Visible)
         old == {r \in Visible : Conflicts(row, {r})}
     IN /\ db' = db \ old
        /\ pending' = (pending \ old) \cup {row}
        /\ saved_count' = [saved_count EXCEPT ![p] = @ + 1]
  /\ lockHolder' = p
  /\ idx' = [idx EXCEPT ![p] = @ + 1]
  /\ fresh' = [fresh EXCEPT ![p] =
                 IF idx[p] = 1
                 THEN \A pair \in BatchPairs(all_links[p], update[p].chat) :
                        RowsOf(db, pair) = {}
                 ELSE @]
  /\ UNCHANGED <<openConns, clock, faults, out>>
  /\ UNCHANGED <<handled, pc, update, all_links, status, exc, again, concurrent>>
  /\ UNCHANGED extractVars
  /\ UNCHANGED normVars

\* lines 103-120: one pass of the for loop whose INSERT is executed
InsertLink(p) ==
  /\ pc[p] = "insert"
  /\ idx[p] <= Len(all_links[p])
  /\ update[p].chat # None
  /\ update[p].sender # None
  /\ lockHolder \in {NoHolder, p}
  /\ LET row == NewRow(all_links[p][idx[p]], update[p].chat, update[p].sender,
                       clock, Visible)
     IN IF Conflicts(row, Visible)
        THEN UNCHANGED <<pending, saved_count>>
        ELSE /\ pending' = pending \cup {row}
             /\ saved_count' = [saved_count EXCEPT ![p] = @ + 1]
  /\ lockHolder' = p
  /\ idx' = [idx EXCEPT ![p] = @ + 1]
  /\ fresh' = [fresh EXCEPT ![p] =
                 IF idx[p] = 1
                 THEN \A pair \in BatchPairs(all_links[p], update[p].chat) :
                        RowsOf(db, pair) = {}
                 ELSE @]
  /\ UNCHANGED <<db, openConns, clock, faults, out>>
  /\ UNCHANGED <<handled, pc, update, all_links, status, exc, again, concurrent>>
  /\ UNCHANGED extractVars
  /\ UNCHANGED normVars

\* lines 113-114: chat.id or sender.id of a None descriptor raises AttributeError,
\* which leaves save_links_to_db and the handler
RaiseAttributeError(p) ==
  /\ pc[p] = "insert"
  /\ idx[p] <= Len(all_links[p])
  /\ update[p].chat = None \/ update[p].sender = None
  /\ pc' = [pc EXCEPT ![p] = "idle"]
  /\ status' = [status EXCEPT ![p] = "raised"]
  /\ exc' = [exc EXCEPT ![p] = "AttributeError"]
  /\ saved_count' = [saved_count EXCEPT ![p] = 0]
  /\ UNCHANGED <<db, pending, lockHolder, openConns, clock, faults, out>>
  /\ UNCHANGED <<handled, update, all_links, idx, fresh, again, concurrent>>
  /\ UNCHANGED extractVars
  /\ UNCHANGED normVars

\* a storage fault that is caught like a duplicate: the loop continues with
\* the next candidate
StorageFaultSwallowed(p) ==
  /\ pc[p] = "insert"
  /\ idx[p] <= Len(all_links[p])
  /\ update[p].chat # None
  /\ update[p].sender # None
  /\ faults' = faults + 1
  /\ idx' = [idx EXCEPT ![p] = @ + 1]
  /\ UNCHANGED <<db, pending, lockHolder, openConns, clock, out>>
  /\ UNCHANGED <<handled, pc, update, all_links, saved_count, status, exc, fresh,
                 again, concurrent>>
  /\ UNCHANGED extractVars
  /\ UNCHANGED normVars

\* a storage fault on a connection in autocommit mode: the rows inserted before
\* the fault are in the store when the exception leaves save_links_to_db
StorageFaultCommits(p) ==
  /\ pc[p] = "insert"
  /\ idx[p] <= Len(all_links[p])
  /\ update[p].chat # None
  /\ update[p].sender # None
  /\ faults' = faults + 1
  /\ pc' = [pc EXCEPT ![p] = "idle"]
  /\ status' = [status EXCEPT ![p] = "raised"]
  /\ exc' = [exc EXCEPT ![p] = "OperationalError"]
  /\ saved_count' = [saved_count EXCEPT ![p] = 0]
  /\ db' = IF lockHolder = p THEN db \cup pending ELSE db
  /\ pending' = IF lockHolder = p THEN {} ELSE pending
  /\ lockHolder' = IF lockHolder = p THEN NoHolder ELSE lockHolder
  /\ UNCHANGED <<openConns, clock, out>>
  /\ UNCHANGED <<handled, update, all_links, idx, fresh, again, concurrent>>
  /\ UNCHANGED extractVars
  /\ UNCHANGED normVars

\* line 109: cursor.execute raises an error other than IntegrityError (disk
\* full, database is locked, ...), which leaves save_links_to_db and the
\* handler; the connection is neither committed nor closed
StorageFault(p) ==
  /\ pc[p] = "insert"
  /\ idx[p] <= Len(all_links[p])
  /\ update[p].chat # None
  /\ update[p].sender # None
  /\ faults' = faults + 1
  /\ pc' = [pc EXCEPT ![p] = "idle"]
  /\ status' = [status EXCEPT ![p] = "raised"]
  /\ exc' = [exc EXCEPT ![p] = "OperationalError"]
  /\ saved_count' = [saved_count EXCEPT ![p] = 0]
  /\ \E locked \in BOOLEAN :
       lockHolder' = IF lockHolder = p \/ (lockHolder = NoHolder /\ locked)
                     THEN Leaked
                     ELSE lockHolder
  /\ UNCHANGED <<db, pending, openConns, clock, out>>
  /\ UNCHANGED <<handled, update, all_links, idx, fresh, again, concurrent>>
  /\ UNCHANGED extractVars
  /\ UNCHANGED normVars

\* the line printed by line 141
Signal(added, chat) == [count |-> added, chat_id |-> chat.id, title |-> chat.title]

\* commit, close and return, with a handler that prints whatever the count is
CommitAndReturnAlwaysPrints(p) ==
  /\ pc[p] = "insert"
  /\ idx[p] > Len(all_links[p])
  /\ db' = IF lockHolder = p THEN db \cup pending ELSE db
  /\ pending' = IF lockHolder = p THEN {} ELSE pending
  /\ lockHolder' = IF lockHolder = p THEN NoHolder ELSE lockHolder
  /\ openConns' = openConns - 1
  /\ pc' = [pc EXCEPT ![p] = "idle"]
  /\ status' = [status EXCEPT ![p] = "returned"]
  /\ out' = Append(out, Signal(saved_count[p], update[p].chat))
  /\ UNCHANGED <<clock, faults>>
  /\ UNCHANGED <<handled, update, all_links, idx, saved_count, exc, fresh, again, concurrent>>
  /\ UNCHANGED extractVars
  /\ UNCHANGED normVars

\* lines 122-124 and 139-141: commit, close, return saved_count; the handler
\* prints when the count is not zero
CommitAndReturn(p) ==
  /\ pc[p] = "insert"
  /\ idx[p] > Len(all_links[p])
  /\ db' = IF lockHolder = p THEN db \cup pending ELSE db
  /\ pending' = IF lockHolder = p THEN {} ELSE pending
  /\ lockHolder' = IF lockHolder = p THEN NoHolder ELSE lockHolder
  /\ openConns' = openConns - 1
  /\ pc' = [pc EXCEPT ![p] = "idle"]
  /\ status' = [status EXCEPT ![p] = "returned"]
  /\ out' = IF saved_count[p] # 0
            THEN Append(out, Signal(saved_count[p], update[p].chat))
            ELSE out
  /\ UNCHANGED <<clock, faults>>
  /\ UNCHANGED <<handled, update, all_links, idx, saved_count, exc, fresh, again, concurrent>>
  /\ UNCHANGED extractVars
  /\ UNCHANGED normVars

\* line 99: a connection that save_links_to_db left open is closed by the
\* runtime once it is unreachable; its open transaction is rolled back
Finalize ==
  /\ LeakedConns > 0
  /\ \E withLock \in BOOLEAN :
       IF withLock
       THEN /\ lockHolder = Leaked
            /\ pending' = {}
            /\ lockHolder' = NoHolder
       ELSE /\ LeakedConns > (IF lockHolder = Leaked THEN 1 ELSE 0)
            /\ UNCHANGED <<pending, lockHolder>>
  /\ openConns' = openConns - 1
  /\ UNCHANGED <<db, clock, faults, out>>
  /\ UNCHANGED procVars
  /\ UNCHANGED extractVars
  /\ UNCHANGED normVars

\* line 106: time passes between two readings of datetime.utcnow()
Tick ==
  /\ clock < MaxClock
  /\ clock' = clock + 1
  /\ UNCHANGED <<db, pending, lockHolder, openConns, faults, out>>
  /\ UNCHANGED procVars
  /\ UNCHANGED extractVars
  /\ UNCHANGED normVars

\* The handler contains no await: the application runs one invocation at a
\* time, here invocation 1.
Workers == {1}

Next ==
  \/ \E p \in Workers, u \in Inbox : HandleNoMessage(p, u)
  \/ \E p \in Workers, u \in Inbox : HandleNoLinks(p, u)
  \/ \E p \in Workers, u \in Inbox : HandleOpen(p, u)
  \/ \E p \in Workers : InsertLink(p)
  \/ \E p \in Workers : RaiseAttributeError(p)
  \/ \E p \in Workers : StorageFault(p)
  \/ \E p \in Workers : CommitAndReturn(p)
  \/ Finalize
  \/ Tick

Spec == Init /\ [][Next]_vars

\* Two invocations that share links.db and run their batches concurrently
\* (the transport dispatches concurrent events, or two instances of the bot run).
NextConcurrent ==
  \/ \E p \in Procs, u \in Inbox : Events < MaxConcurrentEvents /\ HandleNoMessage(p, u)
  \/ \E p \in Procs, u \in Inbox : Events < MaxConcurrentEvents /\ HandleNoLinks(p, u)
  \/ \E p \in Procs, u \in Inbox : Events < MaxConcurrentEvents /\ HandleOpen(p, u)
  \/ \E p \in Procs : InsertLink(p)
  \/ \E p \in Procs : RaiseAttributeError(p)
  \/ \E p \in Procs : StorageFault(p)
  \/ \E p \in Procs : CommitAndReturn(p)
  \/ Finalize
  \/ Tick

SpecConcurrent == Init /\ [][NextConcurrent]_vars

\* ------------------------------------------------------------------------
\* Extraction on its own: a message is drawn, extract_all_links_from_message
\* is applied to it
\* ------------------------------------------------------------------------
\* the text bodies with their entity spans
TextBodies == {
  <<<<>>, <<>>>>,
  <<<<"hello">>, <<>>>>,
  <<<<"see", " ">> \o LinkChan123,
    <<TextLinkEntity(0, 1, LinkPage), BoldEntity(1, 1), UrlEntity(2, 9)>>>>
}

\* the captions with their entity spans
CaptionBodies == {
  <<<<>>, <<>>>>,
  <<LinkChan456 \o <<" ", "join">>, <<UrlEntity(0, 9), TextLinkEntity(10, 1, LinkJoin)>>>>
}

\* the interactive control layouts
Markups == {
  None,
  Markup(<<<<Button(LinkWhatsapp), Button(<<>>)>>, <<Button(LinkProxy)>>>>)
}

\* what a message carries itself
Bodies == [text : TextBodies, caption : CaptionBodies, reply_markup : Markups]

\* the message whose reply chain is chain[k], chain[k + 1], ..., the last one
\* replying to nothing
RECURSIVE BuildMessage(_, _)
BuildMessage(chain, k) ==
  Message(chain[k].text[1], chain[k].text[2],
          chain[k].caption[1], chain[k].caption[2],
          chain[k].reply_markup,
          IF k = Len(chain) THEN None ELSE BuildMessage(chain, k + 1))

InitExtract ==
  /\ InitStore
  /\ \E d \in 0..MaxDepth : \E chain \in [1..(d + 1) -> Bodies] :
       xmsg = BuildMessage(chain, 1)
  /\ xlinks = <<>>
  /\ xpc = "input"
  /\ NoNormalization

Extract ==
  /\ xpc = "input"
  /\ xlinks' = extract_all_links_from_message(xmsg)
  /\ xpc' = "done"
  /\ UNCHANGED xmsg
  /\ UNCHANGED <<db, pending, lockHolder, openConns, clock, faults, out>>
  /\ UNCHANGED procVars
  /\ UNCHANGED normVars

NextExtract == Extract

SpecExtract == InitExtract /\ [][NextExtract]_vars

\* ------------------------------------------------------------------------
\* Normalization on its own: a raw link is drawn, lines 104-105 of
\* save_links_to_db are applied to it
\* ------------------------------------------------------------------------
\* the schemes a raw link is written with; "" for a link without scheme
Schemes == {"", "https", "http", "HTTPS"}

Hosts == {"t.me", "not.me", "example.com", "chat.whatsapp.com"}

\* the paths, without the trailing slashes
Paths == {
  <<>>,
  <<"/", "chan">>,
  <<"/", "chan", "/", "123">>,
  <<"/", "chan", "/", "456">>,
  <<"/", "chan", "/", "abc">>,
  <<"/", "chan", "/", "123", "/", "456">>,
  <<"/", "123", "/", "456">>,
  <<"/", "joinchat">>,
  <<"/", "joinchat", "/", "abc">>,
  <<"/", "joinchat", "/", "123">>,
  <<"/", "addstickers", "/", "abc">>,
  <<"/", "s", "/", "123">>,
  <<"/", "s", "/", "chan", "/", "123">>,
  <<"/", "proxy">>,
  <<"/", "proxy", "/", "123">>,
  <<"/", "proxyfoo", "/", "123">>
}

\* the query strings; "" for a link without "?"
Queries == {"", "utm", "t.me", "chat.whatsapp.com"}

\* the fragments; "" for a link without "#"
Fragments == {"", "abc"}

Shapes == [scheme : Schemes, host : Hosts, path : Paths, slashes : 0..MaxSlashes,
           query : Queries, fragment : Fragments]

\* the raw link written from its components
Assemble(sh) ==
  (IF sh.scheme = "" THEN <<>> ELSE <<sh.scheme, ":", "/", "/">>)
  \o <<sh.host>> \o sh.path \o [k \in 1..sh.slashes |-> "/"]
  \o (IF sh.query = "" THEN <<>> ELSE <<"?", sh.query>>)
  \o (IF sh.fragment = "" THEN <<>> ELSE <<"#", sh.fragment>>)

InitNormalize ==
  /\ InitStore
  /\ NoExtraction
  /\ shape \in Shapes
  /\ rawLink = Assemble(shape)
  /\ canonical = <<>>
  /\ tag = "none"
  /\ npc = "input"

\* lines 104-105: the canonical link and the platform tag of a raw link
Normalize ==
  /\ npc = "input"
  /\ canonical' = Normalized(rawLink)
  /\ tag' = detect_platform(rawLink)
  /\ npc' = "done"
  /\ UNCHANGED <<shape, rawLink>>
  /\ UNCHANGED <<db, pending, lockHolder, openConns, clock, faults, out>>
  /\ UNCHANGED procVars
  /\ UNCHANGED extractVars

NextNormalize == Normalize

SpecNormalize == InitNormalize /\ [][NextNormalize]_vars

\* ------------------------------------------------------------------------
\* Properties of the store
\* ------------------------------------------------------------------------
\* the rows of the batch of invocation p that are stored
StoredOfBatch(p) ==
  {r \in db : <<r.normalized_link, r.group_id>> \in BatchPairs(all_links[p], update[p].chat)}

\* C1: no two stored Link Records share the same (canonical link, origin group
\* id) pair, the absent group id counting as one value of the key.
UniquePairs ==
  \A r1, r2 \in db :
    (r1.normalized_link = r2.normalized_link /\ r1.group_id = r2.group_id) => r1 = r2

\* C2: a batch that returned N on a store holding none of its pairs, called
\* again with the identical candidate list and group, returns 0 and exactly N
\* records of the batch are present afterward.
IdempotentBatch ==
  \A p \in Procs :
    (status[p] = "returned" /\ again[p].prev = "returned") =>
      /\ saved_count[p] = 0
      /\ again[p].fresh => Cardinality(StoredOfBatch(p)) = again[p].count

\* C3: when two invocations ran their batches concurrently and both returned,
\* exactly one record exists for every (canonical, group) pair both carried.
ConcurrentSamePair ==
  \A p, q \in Procs :
    (/\ p # q
     /\ concurrent[p] /\ concurrent[q]
     /\ status[p] = "returned" /\ status[q] = "returned") =>
      \A pair \in BatchPairs(all_links[p], update[p].chat)
                    \cap BatchPairs(all_links[q], update[q].chat) :
        Cardinality(RowsOf(db, pair)) = 1

\* C4: after a batch ended in a fault, a redelivery of the same message that
\* returns leaves every (canonical, group) pair of the message stored exactly
\* once.
ReplaySafe ==
  \A p \in Procs :
    (status[p] = "returned" /\ again[p].prev = "raised") =>
      \A pair \in BatchPairs(all_links[p], update[p].chat) :
        Cardinality(RowsOf(db, pair)) = 1

\* C5: no connection opened by a batch, and no write lock held by it, remains
\* open once the batch is over, whether it returned or raised.
ConnectionsReleased == LeakedConns = 0 /\ lockHolder # Leaked

\* the batch of invocation p raised in this step
Raises(p) == pc[p] = "insert" /\ status'[p] = "raised"

\* C6: a storage fault at a candidate ends the batch there and leaves the
\* handler as an exception: nothing is returned, stored, retried or printed;
\* an exception that leaves a batch is never a uniqueness violation.
FaultSurfaced ==
  [][/\ faults' # faults =>
          \E p \in Procs :
            /\ Raises(p)
            /\ pc'[p] = "idle"
            /\ exc'[p] = "OperationalError"
            /\ idx'[p] = idx[p]
            /\ handled' = handled
            /\ db' = db
            /\ out' = out
     /\ \A p \in Procs :
          Raises(p) => /\ faults' = faults + 1 \/ exc'[p] = "AttributeError"
                       /\ exc'[p] # "IntegrityError"
     /\ \A p \in Procs :
          (status[p] = "raised" /\ handled'[p] = handled[p]) =>
             /\ status'[p] = "raised"
             /\ idx'[p] = idx[p]
             /\ pc'[p] = "idle"]_vars

\* C6 witness: a batch was left by a storage fault before its last candidate
FaultSurfacedWitness ==
  \E p \in Procs :
    /\ status[p] = "raised"
    /\ exc[p] = "OperationalError"
    /\ 1 < idx[p] /\ idx[p] < Len(all_links[p])
    /\ faults > 0
    /\ out = <<>>

\* C7: a candidate whose canonical link is stored for another group only is
\* inserted as a new record of its own group, never skipped.
CrossGroupIsolation ==
  [][\A p \in Procs :
       (/\ pc[p] = "insert"
        /\ idx'[p] = idx[p] + 1
        /\ RowsOf(Visible, <<Normalized(all_links[p][idx[p]]), update[p].chat.id>>) = {}
        /\ \E r \in Visible :
             /\ r.normalized_link = Normalized(all_links[p][idx[p]])
             /\ r.group_id # update[p].chat.id) =>
         /\ saved_count'[p] = saved_count[p] + 1
         /\ \E r \in pending' \ pending :
              /\ r.normalized_link = Normalized(all_links[p][idx[p]])
              /\ r.group_id = update[p].chat.id
         /\ \A r \in Visible : r \in db' \cup pending']_vars

\* C7 witness: one canonical link is stored once for group 1 and once for group 2
CrossGroupWitness ==
  \E r1, r2 \in db :
    /\ r1.normalized_link = r2.normalized_link
    /\ r1.group_id = 1
    /\ r2.group_id = 2
    /\ Cardinality(RowsOf(db, <<r1.normalized_link, 1>>)) = 1
    /\ Cardinality(RowsOf(db, <<r1.normalized_link, 2>>)) = 1

\* a message event of invocation p began in this step and carries no link
HandlesLinkless(p) ==
  /\ handled'[p] = handled[p] + 1
  /\ update'[p].message # None
  /\ extract_all_links_from_message(update'[p].message) = <<>>

\* C9: a message event whose extraction yields no link makes no storage call
\* and emits no signal; the store is unchanged.
EmptyShortCircuit ==
  [][\A p \in Procs :
       HandlesLinkless(p) =>
         /\ pc'[p] = "idle"
         /\ openConns' = openConns
         /\ lockHolder' = lockHolder
         /\ pending' = pending
         /\ db' = db
         /\ out' = out]_vars

\* C9 witness: a link-free message was handled while the store held a record
EmptyShortCircuitWitness ==
  \E p \in Procs :
    /\ status[p] = "empty"
    /\ update[p].message = MsgPlain
    /\ db # {}
    /\ openConns = 0

\* C10: the handler prints exactly when a batch ends having added records, one
\* line with the count returned and the group of the batch; nothing else is
\* ever printed.
SignalIffNew ==
  [][/\ \A p \in Procs :
          (pc[p] = "insert" /\ pc'[p] = "idle") =>
             IF Cardinality(db') > Cardinality(db)
             THEN /\ Len(out') = Len(out) + 1
                  /\ SubSeq(out', 1, Len(out)) = out
                  /\ out'[Len(out')].count = Cardinality(db') - Cardinality(db)
                  /\ out'[Len(out')].count = saved_count'[p]
                  /\ status'[p] = "returned"
                  /\ out'[Len(out')].chat_id = update[p].chat.id
             ELSE out' = out
     /\ (\A p \in Procs : ~(pc[p] = "insert" /\ pc'[p] = "idle")) => out' = out]_vars

\* C10 witness: a batch of two new records was signalled once, and the batch
\* of duplicates that followed it was not
SignalIffNewWitness ==
  \E p \in Procs :
    /\ status[p] = "returned"
    /\ saved_count[p] = 0
    /\ handled[p] >= 2
    /\ Len(out) = 1
    /\ out[1].count = 2
    /\ out[1].chat_id = 2

\* ------------------------------------------------------------------------
\* Properties of the extraction
\* ------------------------------------------------------------------------
IsLinkEntity(entity) == entity.type \in {"url", "text_link"}

\* the links of the entity spans of a text, in the order of the spans
SpanLinks(text, entities) ==
  LET spans == SelectSeq(entities, IsLinkEntity)
  IN [k \in 1..Len(spans) |->
        IF spans[k].type = "url"
        THEN Slice(text, spans[k].offset, spans[k].offset + spans[k].length)
        ELSE spans[k].url]

HasUrl(button) == button.url # <<>>

\* the URLs of the controls of a layout: row after row, control after control
RECURSIVE RowUrls(_)
RowUrls(rows) ==
  IF rows = <<>> THEN <<>>
  ELSE LET controls == SelectSeq(Head(rows), HasUrl)
       IN [k \in 1..Len(controls) |-> controls[k].url] \o RowUrls(Tail(rows))

\* the links a message carries itself
OwnLinks(message) ==
  (IF message.text # <<>> THEN SpanLinks(message.text, message.entities) ELSE <<>>)
  \o (IF message.caption # <<>>
      THEN SpanLinks(message.caption, message.caption_entities) ELSE <<>>)
  \o (IF message.reply_markup # None
      THEN RowUrls(message.reply_markup.inline_keyboard) ELSE <<>>)

\* the k-th ancestor of a message; the message itself for k = 0
RECURSIVE Ancestor(_, _)
Ancestor(message, k) ==
  IF k = 0 THEN message ELSE Ancestor(message.reply_to_message, k - 1)

\* number of ancestors of a message
RECURSIVE Depth(_)
Depth(message) ==
  IF message.reply_to_message = None THEN 0 ELSE 1 + Depth(message.reply_to_message)

\* the own links of the ancestors k, k + 1, ... of a message, nearest first
RECURSIVE LinksFrom(_, _)
LinksFrom(message, k) ==
  IF k > Depth(message) THEN <<>>
  ELSE OwnLinks(Ancestor(message, k)) \o LinksFrom(message, k + 1)

\* C8: the extracted list is the own links of the message (text spans, caption
\* spans, buttons) followed by those of its parent, of its grandparent, and so on.
ExtractionOrder ==
  xpc = "done" =>
    /\ xlinks = LinksFrom(xmsg, 0)
    /\ SubSeq(xlinks, 1, Len(OwnLinks(xmsg))) = OwnLinks(xmsg)

\* C8 witness: a message with text, caption and button links that replies to a
\* message with buttons only, which replies to a captioned one
ExtractionOrderWitness ==
  /\ xpc = "done"
  /\ Depth(xmsg) = 2
  /\ xlinks = <<LinkPage, LinkChan123, LinkChan456, LinkJoin, LinkWhatsapp, LinkProxy,
                LinkWhatsapp, LinkProxy, LinkChan456, LinkJoin>>

\* C15: a stored Link Record is never mutated or deleted: every record of the
\* store is in the store after every step, with all its fields, and a record
\* that enters the store takes the id of no stored record.
RecordsOnlyGrow ==
  [][/\ \A r \in db : r \in db'
     /\ \A r \in db' \ db : \A o \in db : o.id # r.id]_vars

\* C15 witness: the channel link stored for group 1 from sender 7 was posted
\* again with another raw form by sender 8; the batch returned and the record
\* is the one of the first sighting
RecordsOnlyGrowWitness ==
  \E p \in Procs :
    /\ status[p] = "returned"
    /\ update[p] = Update(MsgReply, ChatA, User8)
    /\ saved_count[p] = 1
    /\ \E r \in db :
         /\ r.original_link = LinkChan123
         /\ r.normalized_link = Normalized(LinkChan456)
         /\ r.group_id = 1
         /\ r.sender_id = 7
    /\ \A r \in db : r.group_id = 1 => r.original_link # LinkChan456

\* the (canonical, group id) pair of the candidate the for loop of p is at
CandidatePair(p) == <<Normalized(all_links[p][idx[p]]), update[p].chat.id>>

\* C16: the candidates of a batch are taken in input order; a candidate is
\* inserted iff the store holds no record with its (canonical, group id) pair
\* at that moment, a duplicate is skipped and the batch goes on, and the count
\* returned is the number of records the batch added.
InsertIffAbsent ==
  [][\A p \in Procs :
       /\ (pc[p] = "insert" /\ idx'[p] # idx[p]) =>
            /\ idx'[p] = idx[p] + 1
            /\ pc'[p] = "insert"
            /\ IF RowsOf(Visible, CandidatePair(p)) = {}
               THEN /\ saved_count'[p] = saved_count[p] + 1
                    /\ \E r \in pending' \ pending :
                         /\ <<r.normalized_link, r.group_id>> = CandidatePair(p)
                         /\ r.original_link = all_links[p][idx[p]]
                         /\ pending' = pending \cup {r}
               ELSE /\ saved_count'[p] = saved_count[p]
                    /\ pending' = pending
       /\ (pc[p] = "insert" /\ status'[p] = "returned") =>
            /\ idx[p] = Len(all_links[p]) + 1
            /\ saved_count'[p] = Cardinality(db') - Cardinality(db)]_vars

\* C18: the rows a batch inserts reach the store only at the commit that ends
\* the batch; a batch that a storage fault ends leaves the store as it was, and
\* the rows it inserted before the fault never reach the store.
BatchAtomic ==
  [][/\ db' # db =>
          \E p \in Procs :
            /\ pc[p] = "insert"
            /\ idx[p] > Len(all_links[p])
            /\ status'[p] = "returned"
            /\ lockHolder = p
            /\ db' = db \cup pending
     /\ \A p \in Procs :
          Raises(p) =>
            /\ db' = db
            /\ (lockHolder = p /\ exc'[p] = "OperationalError") =>
                  (lockHolder' = Leaked /\ pending' = pending)
     /\ lockHolder = Leaked =>
          /\ db' = db
          /\ \/ lockHolder' = Leaked /\ pending' = pending
             \/ lockHolder' = NoHolder /\ pending' = {}]_vars

\* C18 witness: a storage fault ended a batch after its first insert; the
\* connection is closed and the store holds no record of the batch
BatchAtomicWitness ==
  \E p \in Procs :
    /\ status[p] = "raised"
    /\ exc[p] = "OperationalError"
    /\ idx[p] > 1
    /\ fresh[p]
    /\ pending = {}
    /\ lockHolder = NoHolder
    /\ openConns = 0
    /\ StoredOfBatch(p) = {}

\* C19: a message event that carries links but no sender descriptor, or no
\* group descriptor, has its batch return, and its new records are stored with
\* the sender or group fields absent.
AbsentDescriptorStored ==
  \A p \in Procs :
    (/\ update[p].message # None
     /\ update[p].sender = None \/ update[p].chat = None
     /\ status[p] \in {"returned", "raised"}) =>
       /\ status[p] = "returned"
       /\ \A k \in 1..Len(all_links[p]) :
            \E r \in db :
              /\ r.normalized_link = Normalized(all_links[p][k])
              /\ update[p].sender = None => r.sender_id = NULL
              /\ update[p].chat = None => r.group_id = NULL

\* number of own links of the ancestors k, k + 1, ... of a message
RECURSIVE OwnCount(_, _)
OwnCount(message, k) ==
  IF k > Depth(message) THEN 0
  ELSE Len(OwnLinks(Ancestor(message, k))) + OwnCount(message, k + 1)

IsChannelMessage(link) ==
  LET parsed == urlparse(link)
      parts == split(rstrip(parsed.path))
  IN /\ parsed.netloc = <<"t.me">>
     /\ ~StartsWithSpecial(parsed.path)
     /\ Len(parts) = 3
     /\ parts[1] = <<>>
     /\ Len(parts[2]) = 1
     /\ Len(parts[3]) = 1
     /\ parts[3][1] \in DigitTokens

\* scheme://host/channel of a link to a message of a channel
ChannelOf(link) ==
  LET parsed == urlparse(link)
  IN Format(parsed.scheme, parsed.netloc, Take(parsed.path, 2))

\* C11: every link to a message of a channel is stored under the canonical value
\* scheme://host/channel, so the links to the messages of one channel are
\* stored once per group.
CollapsedOncePerGroup ==
  /\ \A r \in db :
       IsChannelMessage(r.original_link) => r.normalized_link = ChannelOf(r.original_link)
  /\ \A r1, r2 \in db :
       (/\ IsChannelMessage(r1.original_link)
        /\ IsChannelMessage(r2.original_link)
        /\ ChannelOf(r1.original_link) = ChannelOf(r2.original_link)
        /\ r1.group_id = r2.group_id) => r1 = r2

\* the path a link is written with, its trailing slashes included
WrittenPath(sh) == sh.path \o [k \in 1..sh.slashes |-> "/"]

\* the written path begins with /joinchat/, /addstickers/, /s/ or /proxy
BeginsWithReserved(sh) ==
  LET p == WrittenPath(sh)
  IN /\ sh.scheme # ""
     /\ Len(p) >= 2
     /\ p[1] = "/"
     /\ \/ p[2] \in ProxyTokens
        \/ Len(p) >= 3 /\ p[2] \in {"joinchat", "addstickers", "s"} /\ p[3] = "/"

\* C12: a telegram link whose path begins with a reserved prefix keeps its
\* whole path, the trailing slashes stripped; it is never collapsed to its
\* first segment, a numeric second segment or not.
SpecialPrefixPreserved ==
  (npc = "done" /\ tag = "telegram" /\ BeginsWithReserved(shape)) =>
    canonical = <<Lower(shape.scheme), ":", "/", "/", shape.host>> \o shape.path

\* C12 witness: https://t.me/s/123/ kept its numeric second segment
SpecialPrefixWitness ==
  /\ npc = "done"
  /\ rawLink = <<"https", ":", "/", "/", "t.me", "/", "s", "/", "123", "/">>
  /\ canonical = <<"https", ":", "/", "/", "t.me", "/", "s", "/", "123">>

\* the links that differ from the link of sh in trailing slashes, query string
\* and fragment only
Variants(sh) ==
  {[sh EXCEPT !.slashes = k, !.query = q, !.fragment = f] :
     k \in 0..MaxSlashes, q \in Queries, f \in Fragments}

MalformedFallback ==
  (/\ npc = "done"
   /\ urlparse(rawLink).scheme = <<>>
   /\ urlparse(rawLink).netloc = <<>>) => canonical = rawLink

\* the raw link holds the token a platform is detected by
HoldsToken(l, tokens) == \E i \in 1..Len(l) : l[i] \in tokens

\* C17: the platform tag is telegram when the raw link holds the telegram
\* token, else whatsapp when it holds the WhatsApp invite token, else other;
\* the canonical value is the one of the Telegram rule iff the tag is telegram,
\* and the one of the general rule otherwise.
PlatformFirstMatch ==
  npc = "done" =>
    /\ tag = (IF HoldsToken(rawLink, TMeTokens) THEN "telegram"
              ELSE IF HoldsToken(rawLink, WhatsappTokens) THEN "whatsapp"
              ELSE "other")
    /\ tag = "telegram" => canonical = normalize_telegram_channel(rawLink)
    /\ tag # "telegram" => canonical = normalize_link(rawLink)

\* C17 witness: a link to a channel message that holds both tokens is tagged
\* telegram and collapsed by the Telegram rule
PlatformFirstMatchWitness ==
  /\ npc = "done"
  /\ rawLink = <<"https", ":", "/", "/", "t.me", "/", "chan", "/", "123",
                 "?", "chat.whatsapp.com">>
  /\ tag = "telegram"
  /\ canonical = <<"https", ":", "/", "/", "t.me", "/", "chan">>
  /\ canonical # normalize_link(rawLink)

====
